---------------------------- MODULE Spec2Model ----------------------------
(***************************************************************************)
(* autopprof: the watch/debounce engine (autopprof.go), the cgroup         *)
(* queryers (cgroups.go, cgroups_v1.go, aws_fargate.go) and the CPU usage  *)
(* snapshot queue they feed.                                               *)
(*                                                                         *)
(* Floating point values are kept as exact fractions [n, d]; comparisons   *)
(* follow IEEE-754 (a zero denominator is +Inf, -Inf or NaN).  Unsigned    *)
(* 64-bit counters are scaled down to UintBits bits and keep their         *)
(* wrap-around.                                                            *)
(***************************************************************************)
EXTENDS Integers, Sequences, FiniteSets, TLC

(* ------------------------------ bounds -------------------------------- *)

\* Ticks of its ticker one watcher loop is observed for (specification Spec).
MaxTicks == 2

\* Ticks the long-running loop is observed for in SpecCadence.
CadenceTicks == 10

\* Ticks the other loop is observed for in SpecCadence.
CadenceOtherTicks == 0

\* Ticks each loop is observed for in FairSpec.
StopTicks == 1

\* Ticks each loop is observed for in SpecSelect.
SelectTicks == 1

\* Calls of Start the program makes in FairSpecRestart.
MaxStarts == 2

\* Largest value of minConsecutiveOverThreshold that is explored.
MaxDebounce == 3

\* Capacity of the CPU usage snapshot queue (24 in the source, scaled down).
cpuUsageSnapshotQueueSize == 2

\* Largest cumulative CPU counter value stat() hands out.
MaxCounter == 1

\* Width of the scaled-down unsigned counters (uint64 in the source).
UintBits == 3

\* limitPerVCPU of the fixed-limit variant (1206340307240 in the source,
\* scaled down to the counter range).
limitPerVCPU == 2

(* ------------------------------ numbers ------------------------------- *)

\* Number of values of the unsigned counter type.
UintRange == 2 ^ UintBits

\* a - b in unsigned arithmetic (wraps around).
SubUint(a, b) == (a - b) % UintRange

\* Conversion of an unsigned value to the signed type of the same width
\* (time.Duration(uint64) reinterprets the bits).
ToSigned(x) == IF x >= UintRange \div 2 THEN x - UintRange ELSE x

\* A float64 value as an exact fraction with a non-negative denominator:
\* d = 0 is +Inf (n > 0), -Inf (n < 0) or NaN (n = 0).
Frac(n, d) == IF d < 0 THEN [n |-> 0 - n, d |-> 0 - d] ELSE [n |-> n, d |-> d]

\* float64 division x / y.
FracDiv(x, y) ==
    IF y.n < 0
    THEN Frac(0 - (x.n * y.d), x.d * (0 - y.n))
    ELSE Frac(x.n * y.d, x.d * y.n)

\* float64 comparison x < y for a finite y.  NaN compares false, +Inf is
\* below nothing, -Inf is below every finite value.
FracLess(x, y) ==
    IF x.d = 0
    THEN x.n < 0
    ELSE x.n * y.d < y.n * x.d

FracEq(x, y) == x.d # 0 /\ y.d # 0 /\ x.n * y.d = y.n * x.d

FracZero == Frac(0, 1)

(* --------------------------- strconv.Atoi ----------------------------- *)

Digits == {"0", "1", "2", "3", "4", "5", "6", "7", "8", "9"}

DigitVal(c) ==
    CASE c = "0" -> 0 [] c = "1" -> 1 [] c = "2" -> 2 [] c = "3" -> 3
      [] c = "4" -> 4 [] c = "5" -> 5 [] c = "6" -> 6 [] c = "7" -> 7
      [] c = "8" -> 8 [] c = "9" -> 9

RECURSIVE DecVal(_)
\* Value of a sequence of decimal digits.
DecVal(s) ==
    IF Len(s) = 0
    THEN 0
    ELSE 10 * DecVal(SubSeq(s, 1, Len(s) - 1)) + DigitVal(s[Len(s)])

AllDigits(s) == Len(s) > 0 /\ \A i \in 1..Len(s) : s[i] \in Digits

\* strconv.Atoi on a sequence of characters: an optional sign followed by
\* at least one decimal digit; anything else is a syntax error.
Atoi(s) ==
    IF Len(s) > 0 /\ s[1] \in {"+", "-"}
    THEN IF AllDigits(Tail(s))
         THEN [err |-> FALSE,
               val |-> IF s[1] = "-" THEN 0 - DecVal(Tail(s)) ELSE DecVal(Tail(s))]
         ELSE [err |-> TRUE, val |-> 0]
    ELSE IF AllDigits(s)
         THEN [err |-> FALSE, val |-> DecVal(s)]
         ELSE [err |-> TRUE, val |-> 0]

(* ---------------------- accounting files (cgroup v1) ------------------ *)

\* What os.Open / bufio.Scanner find for one accounting file: the file
\* cannot be opened, reading it fails, it holds no line, or its first line
\* (a sequence of characters).
FileMissing == [kind |-> "missing", text |-> << >>]
FileIOErr == [kind |-> "ioerr", text |-> << >>]
FileEmpty == [kind |-> "empty", text |-> << >>]
FileLine(text) == [kind |-> "line", text |-> text]

\* cgroupV1.parseCPU: (value, error) for one file; err = "nil" is success.
parseCPU(file) ==
    IF file.kind = "missing"
    THEN [val |-> 0, err |-> "open"]
    ELSE IF file.kind = "line"
         THEN IF Atoi(file.text).err
              THEN [val |-> 0, err |-> "syntax"]
              ELSE [val |-> Atoi(file.text).val, err |-> "nil"]
         ELSE IF file.kind = "ioerr"
              THEN [val |-> 0, err |-> "read"]
              ELSE [val |-> 0, err |-> "ErrV1CPUSubsystemEmpty"]

(* ------------------------- snapshot queue ----------------------------- *)

cpuUsageSnapshot(usage, timestamp) == [usage |-> usage, timestamp |-> timestamp]

newCPUUsageSnapshotQueue == << >>

\* Faulty variant: at capacity the newest element is evicted, not the oldest.
enqueueEvictsNewest(q, s) ==
    IF Len(q) >= cpuUsageSnapshotQueueSize
    THEN Append(SubSeq(q, 1, Len(q) - 1), s)
    ELSE Append(q, s)

\* Insert at the tail, evicting the head at capacity.
enqueue(q, s) ==
    IF Len(q) >= cpuUsageSnapshotQueueSize
    THEN Append(Tail(q), s)
    ELSE Append(q, s)

isFull(q) == Len(q) >= cpuUsageSnapshotQueueSize

head(q) == q[1]

tail(q) == q[Len(q)]

(* ------------------------------ queryers ------------------------------ *)

\* A queryer: its variant, the quota setCPUQuota stored (the float64 zero
\* value until then) and its snapshot queue.
newCgroupsV1 ==
    [variant |-> "cgroupV1", vCPUSize |-> 0, cpuQuota |-> FracZero,
     q |-> newCPUUsageSnapshotQueue]

newCgroupsV2 ==
    [variant |-> "cgroupV2", vCPUSize |-> 0, cpuQuota |-> FracZero,
     q |-> newCPUUsageSnapshotQueue]

newAWSFargate(vcpuSize) ==
    [variant |-> "awsFargate", vCPUSize |-> vcpuSize, cpuQuota |-> FracZero,
     q |-> newCPUUsageSnapshotQueue]

NoQueryer ==
    [variant |-> "none", vCPUSize |-> 0, cpuQuota |-> FracZero,
     q |-> newCPUUsageSnapshotQueue]

\* newQueryer: the queryer for the detected cgroup mode, or an error.
newQueryer(mode) ==
    IF mode = "Legacy"
    THEN [qr |-> newCgroupsV1, err |-> "nil"]
    ELSE IF mode \in {"Hybrid", "Unified"}
         THEN [qr |-> newCgroupsV2, err |-> "nil"]
         ELSE [qr |-> NoQueryer, err |-> "ErrCgroupsUnavailable"]

\* cgroupV1.setCPUQuota: parse the quota file, then the period file, store
\* quota / period.
cgroupV1_setCPUQuota(qr, quotaFile, periodFile) ==
    LET quota == parseCPU(quotaFile)
        period == parseCPU(periodFile)
    IN  IF quota.err # "nil"
        THEN [qr |-> qr, err |-> quota.err]
        ELSE IF period.err # "nil"
             THEN [qr |-> qr, err |-> period.err]
             ELSE [qr |-> [qr EXCEPT !.cpuQuota = Frac(quota.val, period.val)],
                   err |-> "nil"]

\* Unified-hierarchy setCPUQuota: the same contract on the unified
\* interface's fields; an unreadable or unlimited quota is an error.
cgroupV2_setCPUQuota(qr, quotaFile, periodFile) ==
    LET quota == parseCPU(quotaFile)
        period == parseCPU(periodFile)
    IN  IF quota.err # "nil" \/ period.err # "nil" \/ quota.val < 0
        THEN [qr |-> qr, err |-> "ErrV2CPUQuotaUndefined"]
        ELSE [qr |-> [qr EXCEPT !.cpuQuota = Frac(quota.val, period.val)],
              err |-> "nil"]

\* awsFargate.setCPUQuota
awsFargate_setCPUQuota(qr) == [qr |-> qr, err |-> "nil"]

setCPUQuota(qr, quotaFile, periodFile) ==
    IF qr.variant = "cgroupV1"
    THEN cgroupV1_setCPUQuota(qr, quotaFile, periodFile)
    ELSE IF qr.variant = "cgroupV2"
         THEN cgroupV2_setCPUQuota(qr, quotaFile, periodFile)
         ELSE awsFargate_setCPUQuota(qr)

\* stat(): an error, or the cgroup metrics.
StatErr == [err |-> TRUE, cpuTotal |-> 0, memUsage |-> 0, inactiveFile |-> 0,
            memLimit |-> 1]

Stat(cpuTotal, memUsage, inactiveFile, memLimit) ==
    [err |-> FALSE, cpuTotal |-> cpuTotal, memUsage |-> memUsage,
     inactiveFile |-> inactiveFile, memLimit |-> memLimit]

\* snapshotCPUUsage: enqueue (usage, time.Now()).
snapshotCPUUsage(qr, usage, t) ==
    [qr EXCEPT !.q = enqueue(qr.q, cpuUsageSnapshot(usage, t))]

\* Faulty variant: the rate is computed without waiting for the queue to fill.
cgroupV1_cpuUsageUngated(qr, stat, t) ==
    IF stat.err
    THEN [qr |-> qr, usage |-> FracZero, err |-> TRUE]
    ELSE LET c == snapshotCPUUsage(qr, stat.cpuTotal, t)
             s1 == head(c.q)
             s2 == tail(c.q)
             delta == ToSigned(SubUint(s2.usage, s1.usage))
             duration == s2.timestamp - s1.timestamp
         IN  [qr |-> c,
              usage |-> FracDiv(Frac(delta, duration), c.cpuQuota),
              err |-> FALSE]

\* cgroupV1.cpuUsage: (queryer after the call, usage, error).
cgroupV1_cpuUsage(qr, stat, t) ==
    IF stat.err
    THEN [qr |-> qr, usage |-> FracZero, err |-> TRUE]
    ELSE LET c == snapshotCPUUsage(qr, stat.cpuTotal, t)
         IN  IF ~isFull(c.q)
             THEN [qr |-> c, usage |-> FracZero, err |-> FALSE]
             ELSE LET s1 == head(c.q)
                      s2 == tail(c.q)
                      delta == ToSigned(SubUint(s2.usage, s1.usage))
                      duration == s2.timestamp - s1.timestamp
                  IN  [qr |-> c,
                       usage |-> FracDiv(Frac(delta, duration), c.cpuQuota),
                       err |-> FALSE]

\* Unified-hierarchy cpuUsage: the same snapshot/rate computation.
cgroupV2_cpuUsage(qr, stat, t) ==
    IF stat.err
    THEN [qr |-> qr, usage |-> FracZero, err |-> TRUE]
    ELSE LET c == snapshotCPUUsage(qr, stat.cpuTotal, t)
         IN  IF ~isFull(c.q)
             THEN [qr |-> c, usage |-> FracZero, err |-> FALSE]
             ELSE LET s1 == head(c.q)
                      s2 == tail(c.q)
                      delta == ToSigned(SubUint(s2.usage, s1.usage))
                      duration == s2.timestamp - s1.timestamp
                  IN  [qr |-> c,
                       usage |-> FracDiv(Frac(delta, duration), c.cpuQuota),
                       err |-> FALSE]

\* Faulty variant: the rate over the queue's span, as in the legacy variant,
\* over the fixed limit.
awsFargate_cpuUsageRate(qr, stat, t) ==
    IF stat.err
    THEN [qr |-> qr, usage |-> FracZero, err |-> TRUE]
    ELSE LET c == snapshotCPUUsage(qr, stat.cpuTotal, t)
         IN  IF ~isFull(c.q)
             THEN [qr |-> c, usage |-> FracZero, err |-> FALSE]
             ELSE LET s1 == head(c.q)
                      s2 == tail(c.q)
                      delta == ToSigned(SubUint(s2.usage, s1.usage))
                      duration == s2.timestamp - s1.timestamp
                  IN  [qr |-> c,
                       usage |-> FracDiv(Frac(delta, duration),
                                         Frac(limitPerVCPU * c.vCPUSize, 1)),
                       err |-> FALSE]

\* awsFargate.cpuUsage: the raw counter over limitPerVCPU * vCPUSize.
awsFargate_cpuUsage(qr, stat, t) ==
    IF stat.err
    THEN [qr |-> qr, usage |-> FracZero, err |-> TRUE]
    ELSE LET c == snapshotCPUUsage(qr, stat.cpuTotal, t)
             totalUsage == stat.cpuTotal
         IN  IF ~isFull(c.q)
             THEN [qr |-> c, usage |-> FracZero, err |-> FALSE]
             ELSE [qr |-> c,
                   usage |-> Frac(totalUsage, limitPerVCPU * c.vCPUSize),
                   err |-> FALSE]

cpuUsage(qr, stat, t) ==
    IF qr.variant = "cgroupV1"
    THEN cgroupV1_cpuUsage(qr, stat, t)
    ELSE IF qr.variant = "cgroupV2"
         THEN cgroupV2_cpuUsage(qr, stat, t)
         ELSE awsFargate_cpuUsage(qr, stat, t)

\* memUsage (the same in every variant): (usage - inactive_file) / limit,
\* the subtraction in unsigned arithmetic.
memUsage(qr, stat) ==
    IF stat.err
    THEN [qr |-> qr, usage |-> FracZero, err |-> TRUE]
    ELSE [qr |-> qr,
          usage |-> Frac(SubUint(stat.memUsage, stat.inactiveFile), stat.memLimit),
          err |-> FALSE]

(* ------------------------------ the engine ---------------------------- *)

Loops == {"cpu", "mem"}

Tasks == Loops \cup {"watch"}

Other(l) == IF l = "cpu" THEN "mem" ELSE "cpu"

VARIABLES
    env,        \* the platform: cgroup mode and the CPU quota / period files
    opt,        \* the Option the caller passes to Start
    defaultMinConsecutiveOverThreshold,
    budget,     \* ticks each loop's ticker delivers while observed
    globalAp,   \* TRUE once Start has published the instance
    ap,         \* the autoPprof instance
    queryer,    \* ap.queryer
    stopC,      \* ap.stopC: "open" or "closed"
    now,        \* time.Now()
    pc,         \* position of the controller task and of each watcher loop
    consecutiveOverThresholdCnt,
    startErr,   \* what Start returned ("notCalled" before the call)
    panicked,   \* the process died of a run-time panic
    closes,     \* close(ap.stopC) operations issued
    quotaCalls, \* calls of queryer.setCPUQuota
    ticks,      \* ticks each loop has taken
    sustained,  \* every poll of the loop so far was at or above threshold
    sustainedReports, \* own-kind reports dispatched while `sustained` holds
    dropFrom,   \* the counter before the loop's latest drop below threshold
                \* (-1 unless its latest poll was below threshold)
    exitReason, \* why each loop returned
    qAccess,    \* the loops that have used the snapshot queue
    last,       \* the latest step: who took it, what it was given, and the
                \* taker's counter and dropFrom before it
    maxStarts,  \* calls of Start the caller makes at most
    starts,     \* calls of Start made
    orphans,    \* instances Start replaced in globalAp while their stopC
                \* was open: nothing refers to them any more
    ctxDone,    \* per loop: the deadline of the delivery in progress passed
    bench       \* the queryer called on its own: snapshots inserted, the
                \* latest cpuUsage return

scenario ==
    <<env, opt, defaultMinConsecutiveOverThreshold, budget, maxStarts, bench>>

callerVars ==
    <<globalAp, ap, stopC, startErr, panicked, closes, quotaCalls, starts,
      orphans>>

reportVars == <<ctxDone>>

loopHistory == <<ticks, sustained, sustainedReports, dropFrom>>

vars == <<env, opt, defaultMinConsecutiveOverThreshold, budget, globalAp, ap,
          queryer, stopC, now, pc, consecutiveOverThresholdCnt, startErr,
          panicked, closes, quotaCalls, ticks, sustained, sustainedReports,
          dropFrom, exitReason, qAccess, last, maxStarts, starts, orphans,
          ctxDone, bench>>

\* The step record.  For a cross read, stat is what stat() returned to it
\* and arg is <<usage>>, the usage it hands to the report of the other kind
\* (StatErr and << >> in every other step).
Step(task, op, result) ==
    [task |-> task, op |-> op, result |-> result,
     cnt |-> IF task \in Loops THEN consecutiveOverThresholdCnt[task] ELSE 0,
     dropFrom |-> IF task \in Loops THEN dropFrom[task] ELSE -1,
     stat |-> StatErr, arg |-> << >>]

defaultCPUThreshold == Frac(3, 4)

defaultMemThreshold == Frac(3, 4)

\* Option.validate: the two disable flags exclude each other and the
\* thresholds lie in [0, 1].
validate(o) ==
    IF o.DisableCPUProf /\ o.DisableMemProf
    THEN "ErrDisableAllProfiling"
    ELSE IF FracLess(o.CPUThreshold, FracZero) \/ FracLess(Frac(1, 1), o.CPUThreshold)
         THEN "ErrInvalidCPUThreshold"
         ELSE IF FracLess(o.MemThreshold, FracZero)
                 \/ FracLess(Frac(1, 1), o.MemThreshold)
              THEN "ErrInvalidMemThreshold"
              ELSE "nil"

NilAp ==
    [cpuThreshold |-> FracZero, memThreshold |-> FracZero,
     minConsecutiveOverThreshold |-> 0, reportBoth |-> FALSE,
     disableCPUProf |-> FALSE, disableMemProf |-> FALSE]

\* The instance Start builds from the option and the defaults.
newAutoPprof(o, minConsecutive) ==
    [cpuThreshold |-> IF o.CPUThreshold # FracZero
                      THEN o.CPUThreshold ELSE defaultCPUThreshold,
     memThreshold |-> IF o.MemThreshold # FracZero
                      THEN o.MemThreshold ELSE defaultMemThreshold,
     minConsecutiveOverThreshold |-> minConsecutive,
     reportBoth |-> o.ReportBoth,
     disableCPUProf |-> o.DisableCPUProf,
     disableMemProf |-> o.DisableMemProf]

\* Faulty variant: the quota error is swallowed without disabling the CPU profiling.
loadCPUQuotaKeepsCPU(a, qr, e) ==
    LET r == setCPUQuota(qr, e.quotaFile, e.periodFile)
    IN  IF r.err = "nil"
        THEN [ap |-> a, qr |-> r.qr, err |-> "nil"]
        ELSE IF a.disableMemProf
             THEN [ap |-> a, qr |-> r.qr, err |-> r.err]
             ELSE [ap |-> a, qr |-> r.qr, err |-> "nil"]

\* autoPprof.loadCPUQuota: (instance, queryer, error) after the call.
loadCPUQuota(a, qr, e) ==
    LET r == setCPUQuota(qr, e.quotaFile, e.periodFile)
    IN  IF r.err = "nil"
        THEN [ap |-> a, qr |-> r.qr, err |-> "nil"]
        ELSE IF a.disableMemProf
             THEN [ap |-> a, qr |-> r.qr, err |-> r.err]
             ELSE [ap |-> [a EXCEPT !.disableCPUProf = TRUE], qr |-> r.qr,
                   err |-> "nil"]

\* Faulty variant: the fixed-limit override is not applied.
StartQueryerNoOverride(e, o) == newQueryer(e.mode).qr

\* The queryer Start hands to the instance: newQueryer's, or the fixed-limit
\* one when opt.UseAWSFargate is set.
StartQueryer(e, o) ==
    IF o.UseAWSFargate THEN newAWSFargate(o.VCPUSize) ELSE newQueryer(e.mode).qr

\* What Start computes: the error it returns, the instance and the queryer,
\* and how often it called setCPUQuota.
StartResult(e, o, minConsecutive) ==
    LET nq == newQueryer(e.mode)
        a == newAutoPprof(o, minConsecutive)
        ld == loadCPUQuota(a, StartQueryer(e, o), e)
    IN  IF nq.err # "nil"
        THEN [err |-> nq.err, ap |-> NilAp, qr |-> NoQueryer, quotaCalls |-> 0]
        ELSE IF validate(o) # "nil"
             THEN [err |-> validate(o), ap |-> NilAp, qr |-> NoQueryer,
                   quotaCalls |-> 0]
             ELSE IF a.disableCPUProf
                  THEN [err |-> "nil", ap |-> a, qr |-> StartQueryer(e, o),
                        quotaCalls |-> 0]
                  ELSE [err |-> ld.err, ap |-> ld.ap, qr |-> ld.qr,
                        quotaCalls |-> 1]

\* Start(opt): on success the controller task is spawned and the instance
\* published as globalAp, whether or not an instance is there already: the
\* new instance has its own stopC, queryer and goroutines, and an instance
\* it replaces is referred to by nothing any more.
Start ==
    /\ starts < maxStarts
    /\ ~panicked
    /\ starts' = starts + 1
    /\ LET r == StartResult(env, opt, defaultMinConsecutiveOverThreshold)
       IN  /\ startErr' = r.err
           /\ quotaCalls' = quotaCalls + r.quotaCalls
           /\ IF r.err = "nil"
              THEN /\ ap' = r.ap
                   /\ queryer' = r.qr
                   /\ globalAp' = TRUE
                   /\ stopC' = "open"
                   /\ closes' = 0
                   /\ orphans' = IF globalAp /\ stopC = "open"
                                 THEN orphans + 1 ELSE orphans
                   /\ pc' = [t \in Tasks |->
                                IF t = "watch" THEN "spawnCPU" ELSE "idle"]
                   /\ consecutiveOverThresholdCnt' = [l \in Loops |-> 0]
                   /\ ticks' = [l \in Loops |-> 0]
                   /\ sustained' = [l \in Loops |-> TRUE]
                   /\ sustainedReports' = [l \in Loops |-> 0]
                   /\ dropFrom' = [l \in Loops |-> -1]
                   /\ exitReason' = [l \in Loops |-> "none"]
                   /\ qAccess' = {}
                   /\ ctxDone' = [l \in Loops |-> FALSE]
              ELSE UNCHANGED <<ap, queryer, globalAp, stopC, closes, orphans,
                               pc, consecutiveOverThresholdCnt, loopHistory,
                               exitReason, qAccess, reportVars>>
    /\ last' = Step("caller", "Start", "-")
    /\ UNCHANGED <<scenario, now, panicked>>

\* autoPprof.stop: close(ap.stopC); closing a closed channel panics.
stop ==
    IF stopC = "open"
    THEN /\ stopC' = "closed"
         /\ closes' = closes + 1
         /\ UNCHANGED panicked
    ELSE /\ panicked' = TRUE
         /\ closes' = closes + 1
         /\ UNCHANGED stopC

\* Stop(): stops the global instance, if there is one.
Stop ==
    /\ ~panicked
    /\ IF globalAp
       THEN stop
       ELSE UNCHANGED <<stopC, closes, panicked>>
    /\ last' = Step("caller", "Stop", "-")
    /\ UNCHANGED <<scenario, globalAp, ap, queryer, now, pc,
                   consecutiveOverThresholdCnt, startErr, quotaCalls, starts,
                   orphans, loopHistory, exitReason, qAccess, reportVars>>

\* autoPprof.watch: spawn the two watcher loops, then block on stopC.
watchSpawnCPU ==
    /\ pc["watch"] = "spawnCPU"
    /\ ~panicked
    /\ pc' = [pc EXCEPT !["watch"] = "spawnMem", !["cpu"] = "entry"]
    /\ last' = Step("watch", "spawn", "-")
    /\ UNCHANGED <<scenario, callerVars, queryer, now,
                   consecutiveOverThresholdCnt, loopHistory, exitReason,
                   qAccess, reportVars>>

watchSpawnMem ==
    /\ pc["watch"] = "spawnMem"
    /\ ~panicked
    /\ pc' = [pc EXCEPT !["watch"] = "wait", !["mem"] = "entry"]
    /\ last' = Step("watch", "spawn", "-")
    /\ UNCHANGED <<scenario, callerVars, queryer, now,
                   consecutiveOverThresholdCnt, loopHistory, exitReason,
                   qAccess, reportVars>>

\* <-ap.stopC
watchReturn ==
    /\ pc["watch"] = "wait"
    /\ ~panicked
    /\ stopC = "closed"
    /\ pc' = [pc EXCEPT !["watch"] = "done"]
    /\ last' = Step("watch", "return", "-")
    /\ UNCHANGED <<scenario, callerVars, queryer, now,
                   consecutiveOverThresholdCnt, loopHistory, exitReason,
                   qAccess, reportVars>>

watch == watchSpawnCPU \/ watchSpawnMem \/ watchReturn

(* --------------------------- the watcher loops ------------------------ *)

\* What stat() may return to a read of the given kind (only the fields the
\* read uses vary).
CPUStats == {StatErr} \cup {Stat(c, 0, 0, 1) : c \in 0..MaxCounter}

MemStats ==
    {StatErr} \cup {Stat(0, u, i, 4) : u \in {0, 3, 4}, i \in {0, 1}}

StatsFor(kind) == IF kind = "cpu" THEN CPUStats ELSE MemStats

\* ap.queryer.cpuUsage() / ap.queryer.memUsage()
ReadUsage(kind, stat) ==
    IF kind = "cpu" THEN cpuUsage(queryer, stat, now) ELSE memUsage(queryer, stat)

Disabled(kind) == IF kind = "cpu" THEN ap.disableCPUProf ELSE ap.disableMemProf

Threshold(kind) == IF kind = "cpu" THEN ap.cpuThreshold ELSE ap.memThreshold

\* Faulty variant: the threshold test made strict (usage equal to the threshold is
\* no breach).
BreachStrict(usage, threshold) == FracLess(threshold, usage)

\* The poll's threshold test: the loop goes on to its breach handling
\* unless usage < threshold.
Breach(usage, threshold) == ~FracLess(usage, threshold)

\* Faulty variant: the reset test off by one (> instead of >=).
CounterAfterOffByOne(cnt, limit) == IF cnt + 1 > limit THEN 0 ELSE cnt + 1

\* The counter after a breach tick: incremented, and reset once it reaches
\* minConsecutiveOverThreshold.
CounterAfter(cnt, limit) == IF cnt + 1 >= limit THEN 0 ELSE cnt + 1

\* Faulty variant: the loop returns when a report call fails.
ContinuesOnlyAfterSuccess(err) == err = "nil"

\* Whether the loop goes on after a report call returned err (it only logs).
ContinuesAfterReport(err) == TRUE

\* Whether the loop goes on after the read of the other kind's usage
\* returned an error (it logs and returns).
ContinuesAfterCrossReadError == FALSE

\* Faulty variant: the cross report does not depend on reportBoth.
ReportsOtherIgnoresFlag(l) == ~Disabled(Other(l))

\* Whether a new breach also reports the other kind.
ReportsOther(l) == ap.reportBoth /\ ~Disabled(Other(l))

\* How a usage compares with the threshold.
Class(usage, threshold) ==
    IF FracLess(usage, threshold)
    THEN "below"
    ELSE IF FracEq(usage, threshold) THEN "equal" ELSE "above"

\* The state of the queryer and the clock after a read of `kind` by loop l.
ReadEffect(l, kind, r) ==
    /\ queryer' = r.qr
    /\ IF kind = "cpu" /\ ~r.err
       THEN /\ now' = now + 1
            /\ qAccess' = qAccess \cup {l}
       ELSE UNCHANGED <<now, qAccess>>

\* The end of a breach tick: counter update, back to the select.
EndTick(l) ==
    /\ consecutiveOverThresholdCnt' =
           [consecutiveOverThresholdCnt EXCEPT
               ![l] = CounterAfter(@, ap.minConsecutiveOverThreshold)]
    /\ pc' = [pc EXCEPT ![l] = "select"]
    /\ UNCHANGED exitReason

Return(l, why) ==
    /\ pc' = [pc EXCEPT ![l] = "done"]
    /\ exitReason' = [exitReason EXCEPT ![l] = why]
    /\ UNCHANGED consecutiveOverThresholdCnt

\* Faulty variant: the cross report is skipped when the loop's own report
\* failed.
AfterReportSkipsCrossOnFailure(l, own, err) ==
    IF own /\ ReportsOther(l) /\ err = "nil"
    THEN /\ pc' = [pc EXCEPT ![l] = "crossRead"]
         /\ UNCHANGED <<consecutiveOverThresholdCnt, exitReason>>
    ELSE EndTick(l)

\* After a report call of the loop returned: the cross report after the
\* loop's own report, otherwise the end of the tick.
AfterReport(l, own, err) ==
    IF ~ContinuesAfterReport(err)
    THEN Return(l, "reportErr")
    ELSE IF own /\ ReportsOther(l)
         THEN /\ pc' = [pc EXCEPT ![l] = "crossRead"]
              /\ UNCHANGED <<consecutiveOverThresholdCnt, exitReason>>
         ELSE EndTick(l)

\* Entry of watchCPUUsage / watchMemUsage: return if the kind is disabled,
\* else create the ticker and the counter.
loopEntry(l) ==
    /\ pc[l] = "entry"
    /\ ~panicked
    /\ IF Disabled(l)
       THEN Return(l, "disabled")
       ELSE /\ pc' = [pc EXCEPT ![l] = "select"]
            /\ consecutiveOverThresholdCnt' =
                   [consecutiveOverThresholdCnt EXCEPT ![l] = 0]
            /\ UNCHANGED exitReason
    /\ last' = Step(l, "entry", "-")
    /\ UNCHANGED <<scenario, callerVars, queryer, now, loopHistory, qAccess,
                   reportVars>>

\* The loop's history after a poll returned usage class c.
PollHistory(l, c) ==
    /\ ticks' = [ticks EXCEPT ![l] = @ + 1]
    /\ sustained' = [sustained EXCEPT ![l] = @ /\ c \in {"equal", "above"}]
    /\ sustainedReports' =
           [sustainedReports EXCEPT
               ![l] = IF ~(sustained[l] /\ c \in {"equal", "above"})
                      THEN 0
                      ELSE IF pc'[l] = "profOwn" THEN @ + 1 ELSE @]
    /\ dropFrom' =
           [dropFrom EXCEPT
               ![l] = IF c = "below"
                      THEN IF @ = -1 THEN consecutiveOverThresholdCnt[l] ELSE @
                      ELSE -1]

\* case <-ticker.C: poll the usage, compare with the threshold, and on a
\* new breach enter the report of the loop's own kind.
loopTick(l) ==
    /\ pc[l] = "select"
    /\ ~panicked
    /\ ticks[l] < budget[l]
    /\ \E stat \in StatsFor(l) :
          LET r == ReadUsage(l, stat)
              c == IF r.err THEN "err" ELSE Class(r.usage, Threshold(l))
          IN  /\ ReadEffect(l, l, r)
              /\ last' = Step(l, "poll", c)
              /\ IF r.err
                 THEN Return(l, "pollErr")
                 ELSE IF ~Breach(r.usage, Threshold(l))
                      THEN /\ consecutiveOverThresholdCnt' =
                                  [consecutiveOverThresholdCnt EXCEPT ![l] = 0]
                           /\ UNCHANGED <<pc, exitReason>>
                      ELSE IF consecutiveOverThresholdCnt[l] = 0
                           THEN /\ pc' = [pc EXCEPT ![l] = "profOwn"]
                                /\ UNCHANGED <<consecutiveOverThresholdCnt,
                                               exitReason>>
                           ELSE EndTick(l)
              /\ PollHistory(l, c)
    /\ UNCHANGED <<scenario, callerVars, reportVars>>

\* profiler.profileCPU() / profileHeap() returns inside reportCPUProfile /
\* reportHeapProfile: on an error the report call returns it, otherwise the
\* reporter is called.
profileReturn(l) ==
    /\ pc[l] \in {"profOwn", "profCross"}
    /\ ~panicked
    /\ \E err \in {"nil", "captureErr"} :
          /\ last' = Step(l, IF pc[l] = "profOwn" THEN "profileOwn"
                             ELSE "profileCross", err)
          /\ IF err # "nil"
             THEN AfterReport(l, pc[l] = "profOwn", err)
             ELSE /\ pc' = [pc EXCEPT
                               ![l] = IF pc[l] = "profOwn"
                                      THEN "sendOwn" ELSE "sendCross"]
                  /\ UNCHANGED <<consecutiveOverThresholdCnt, exitReason>>
    /\ UNCHANGED <<scenario, callerVars, queryer, now, loopHistory, qAccess,
                   ctxDone>>

\* The timer of context.WithTimeout(reportTimeout) fires while the reporter
\* call is still in progress: ctx.Done() is closed.  The report call itself
\* does not watch it; it is blocked in the reporter.  (A step of
\* NextDeadline only: the other specifications do not show the state
\* between the deadline and the reporter's return.)
ctxTimeout(l) ==
    /\ pc[l] \in {"sendOwn", "sendCross"}
    /\ ~panicked
    /\ ~ctxDone[l]
    /\ ctxDone' = [ctxDone EXCEPT ![l] = TRUE]
    /\ last' = Step(l, "ctxTimeout", "-")
    /\ UNCHANGED <<scenario, callerVars, queryer, now, pc,
                   consecutiveOverThresholdCnt, loopHistory, exitReason,
                   qAccess>>


\* reporter.ReportCPUProfile / ReportHeapProfile returns nil, an error of
\* its own, or the context's deadline error (the deadline having passed, in
\* this step or in a ctxTimeout step before): the report call returns what
\* it returned, and the deferred cancel() releases the context.
deliverReturn(l) ==
    /\ pc[l] \in {"sendOwn", "sendCross"}
    /\ ~panicked
    /\ \E err \in {"nil", "deliveryErr", "timeout"} :
          /\ last' = Step(l, IF pc[l] = "sendOwn" THEN "deliverOwn"
                             ELSE "deliverCross", err)
          /\ AfterReport(l, pc[l] = "sendOwn", err)
    /\ ctxDone' = [ctxDone EXCEPT ![l] = FALSE]
    /\ UNCHANGED <<scenario, callerVars, queryer, now, loopHistory, qAccess>>

\* The cross report's read of the other kind's usage, then the other
\* kind's report.
crossRead(l) ==
    /\ pc[l] = "crossRead"
    /\ ~panicked
    /\ \E stat \in StatsFor(Other(l)) :
          LET r == ReadUsage(Other(l), stat)
          IN  /\ ReadEffect(l, Other(l), r)
              /\ last' = [Step(l, "crossRead", IF r.err THEN "err" ELSE "nil")
                              EXCEPT !.stat = stat,
                                     !.arg = IF r.err THEN << >> ELSE <<r.usage>>]
              /\ IF r.err
                 THEN IF ContinuesAfterCrossReadError
                      THEN EndTick(l)
                      ELSE Return(l, "crossReadErr")
                 ELSE /\ pc' = [pc EXCEPT ![l] = "profCross"]
                      /\ UNCHANGED <<consecutiveOverThresholdCnt, exitReason>>
    /\ UNCHANGED <<scenario, callerVars, loopHistory, reportVars>>

\* Faulty variant: the stop case goes round the loop again instead of returning.
loopStopContinues(l) ==
    /\ pc[l] = "select"
    /\ ~panicked
    /\ stopC = "closed"
    /\ last' = Step(l, "stop", "-")
    /\ UNCHANGED <<scenario, callerVars, queryer, now, loopHistory, qAccess,
                   pc, consecutiveOverThresholdCnt, exitReason, reportVars>>

\* case <-ap.stopC: return.
loopStop(l) ==
    /\ pc[l] = "select"
    /\ ~panicked
    /\ stopC = "closed"
    /\ Return(l, "stop")
    /\ last' = Step(l, "stop", "-")
    /\ UNCHANGED <<scenario, callerVars, queryer, now, loopHistory, qAccess,
                   reportVars>>

watchCPUUsage ==
    \/ loopEntry("cpu")
    \/ loopTick("cpu")
    \/ profileReturn("cpu")
    \/ deliverReturn("cpu")
    \/ crossRead("cpu")
    \/ loopStop("cpu")

watchMemUsage ==
    \/ loopEntry("mem")
    \/ loopTick("mem")
    \/ profileReturn("mem")
    \/ deliverReturn("mem")
    \/ crossRead("mem")
    \/ loopStop("mem")

(* ---------------------------- specifications -------------------------- *)

Modes == {"Legacy", "Hybrid", "Unified", "Unavailable"}

Options ==
    [ReportBoth : BOOLEAN, DisableCPUProf : BOOLEAN, DisableMemProf : BOOLEAN,
     UseAWSFargate : BOOLEAN, VCPUSize : {1, 2}, CPUThreshold : {FracZero},
     MemThreshold : {FracZero}]

QuotaFiles ==
    {FileMissing, FileLine(<<"-", "1">>), FileLine(<<"4">>), FileLine(<<"1">>)}

PeriodFiles == {FileLine(<<"3">>), FileLine(<<"2">>)}

Envs == [mode : Modes, quotaFile : QuotaFiles, periodFile : PeriodFiles]

\* The bench before any call, and in every run of the engine.
NoBench == [calls |-> 0, inserted |-> << >>, usage |-> FracZero, err |-> FALSE]

\* Before Start: no instance, no goroutine.
InitTasks ==
    /\ globalAp = FALSE
    /\ ap = NilAp
    /\ stopC = "open"
    /\ now = 0
    /\ pc = [t \in Tasks |-> "idle"]
    /\ consecutiveOverThresholdCnt = [l \in Loops |-> 0]
    /\ startErr = "notCalled"
    /\ panicked = FALSE
    /\ closes = 0
    /\ quotaCalls = 0
    /\ ticks = [l \in Loops |-> 0]
    /\ sustained = [l \in Loops |-> TRUE]
    /\ sustainedReports = [l \in Loops |-> 0]
    /\ dropFrom = [l \in Loops |-> -1]
    /\ exitReason = [l \in Loops |-> "none"]
    /\ qAccess = {}
    /\ last = [task |-> "none", op |-> "init", result |-> "-", cnt |-> 0,
               dropFrom |-> -1, stat |-> StatErr, arg |-> << >>]
    /\ starts = 0
    /\ orphans = 0
    /\ ctxDone = [l \in Loops |-> FALSE]

InitEngine ==
    /\ queryer = NoQueryer
    /\ InitTasks

\* The engine on a legacy-hierarchy platform (or none), for every option,
\* observed for MaxTicks ticks of each loop.
Init ==
    /\ env \in {e \in Envs : /\ e.mode \in {"Legacy", "Unavailable"}
                              /\ e.quotaFile # FileLine(<<"1">>)
                              /\ e.periodFile = FileLine(<<"3">>)}
    /\ opt \in {o \in Options : ~o.UseAWSFargate /\ o.VCPUSize = 1}
    /\ defaultMinConsecutiveOverThreshold \in 1..MaxTicks
    /\ budget = [l \in Loops |-> MaxTicks]
    /\ maxStarts = 1
    /\ bench = NoBench
    /\ InitEngine

Next == Start \/ Stop \/ watch \/ watchCPUUsage \/ watchMemUsage

Spec == Init /\ [][Next]_vars

\* Sustained operation: both kinds monitored on a legacy-hierarchy platform
\* with a readable quota, one loop observed for CadenceTicks ticks and the
\* other for CadenceOtherTicks, and Stop never called.
InitCadence ==
    /\ env \in {e \in Envs : /\ e.mode = "Legacy"
                              /\ e.quotaFile = FileLine(<<"4">>)
                              /\ e.periodFile = FileLine(<<"3">>)}
    /\ opt \in {o \in Options :
                    /\ ~o.UseAWSFargate /\ o.VCPUSize = 1
                    /\ ~o.DisableCPUProf /\ ~o.DisableMemProf}
    /\ defaultMinConsecutiveOverThreshold \in 1..MaxDebounce
    /\ budget \in {[l \in Loops |-> IF l = long THEN CadenceTicks
                                    ELSE CadenceOtherTicks] : long \in Loops}
    /\ maxStarts = 1
    /\ bench = NoBench
    /\ InitEngine

NextCadence ==
    \/ Start
    \/ watchSpawnCPU
    \/ watchSpawnMem
    \/ \E l \in Loops :
          \/ loopEntry(l)
          \/ loopTick(l)
          \/ profileReturn(l)
          \/ deliverReturn(l)
          \/ crossRead(l)

SpecCadence == InitCadence /\ [][NextCadence]_vars

\* The engine under the scheduling the Go runtime provides: a runnable
\* goroutine eventually runs, a blocking Profiler / Reporter / stat call
\* returns, and a select whose stop case stays ready eventually takes it
\* (select picks among its ready cases at random).  Ticks are not forced.
Fairness ==
    /\ WF_vars(watch)
    /\ \A l \in Loops :
          /\ WF_vars(loopEntry(l))
          /\ WF_vars(profileReturn(l))
          /\ WF_vars(deliverReturn(l))
          /\ WF_vars(crossRead(l))
          /\ SF_vars(loopStop(l))

\* The engine as in Init, observed for StopTicks ticks of each loop.
InitStop ==
    /\ env \in {e \in Envs : /\ e.mode \in {"Legacy", "Unavailable"}
                              /\ e.quotaFile # FileLine(<<"1">>)
                              /\ e.periodFile = FileLine(<<"3">>)}
    /\ opt \in {o \in Options : ~o.UseAWSFargate /\ o.VCPUSize = 1}
    /\ defaultMinConsecutiveOverThreshold \in 1..(StopTicks + 1)
    /\ budget = [l \in Loops |-> StopTicks]
    /\ maxStarts = 1
    /\ bench = NoBench
    /\ InitEngine

FairSpec == InitStop /\ [][Next]_vars /\ Fairness

\* The program calling Start up to MaxStarts times: each successful call
\* stores a new instance in globalAp, and an instance displaced while its
\* stopC is open is counted in orphans.
InitRestart ==
    /\ env \in {e \in Envs : /\ e.mode = "Legacy"
                              /\ e.quotaFile = FileLine(<<"4">>)
                              /\ e.periodFile = FileLine(<<"3">>)}
    /\ opt \in {o \in Options : ~o.UseAWSFargate /\ o.VCPUSize = 1}
    /\ defaultMinConsecutiveOverThreshold = 1
    /\ budget = [l \in Loops |-> StopTicks]
    /\ maxStarts = MaxStarts
    /\ bench = NoBench
    /\ InitEngine

FairSpecRestart == InitRestart /\ [][Next]_vars /\ Fairness

\* The same scheduling without any promise about the Reporter: a goroutine
\* that can run does, the Profiler's capture ends, the deadline timer
\* fires, but when (and whether) a reporter call returns is up to the
\* Reporter the caller supplied.
DeadlineFairness ==
    /\ WF_vars(watch)
    /\ \A l \in Loops :
          /\ WF_vars(loopEntry(l))
          /\ WF_vars(profileReturn(l))
          /\ WF_vars(ctxTimeout(l))
          /\ WF_vars(crossRead(l))
          /\ SF_vars(loopStop(l))

\* The engine with the passing of a delivery's deadline as a step.
NextDeadline == Next \/ \E l \in Loops : ctxTimeout(l)

FairSpecDeadline == InitStop /\ [][NextDeadline]_vars /\ DeadlineFairness

\* The engine on every platform, with and without the fixed-limit
\* override, observed for SelectTicks ticks of each loop.
InitSelect ==
    /\ env \in {e \in Envs : /\ e.quotaFile \in {FileMissing, FileLine(<<"4">>)}
                              /\ e.periodFile = FileLine(<<"3">>)}
    /\ opt \in {o \in Options : o.UseAWSFargate \/ o.VCPUSize = 1}
    /\ defaultMinConsecutiveOverThreshold = 1
    /\ budget = [l \in Loops |-> SelectTicks]
    /\ maxStarts = 1
    /\ bench = NoBench
    /\ InitEngine

SpecSelect == InitSelect /\ [][Next]_vars

(* ------------------------- the queryer on its own --------------------- *)

\* Calls of cpuUsage made on the bench.
BenchCalls == cpuUsageSnapshotQueueSize + 2

\* What stat() may return on the bench: an error, or any value of the
\* cumulative CPU counter.
BenchStats == {StatErr} \cup {Stat(c, 0, 0, 1) : c \in 0..(UintRange - 1)}

\* A legacy-hierarchy platform whose quota is 1/2.
BenchEnvs ==
    {e \in Envs : /\ e.mode = "Legacy"
                  /\ e.quotaFile = FileLine(<<"1">>)
                  /\ e.periodFile = FileLine(<<"2">>)}

\* The queryer Start would hand to the engine, its quota set, called
\* directly: each call of cpuUsage is given what stat() returns, and the
\* bench keeps the snapshots the calls were to insert and the latest return.
InitQueryer ==
    /\ env \in BenchEnvs
    /\ opt \in {o \in Options :
                    /\ ~o.ReportBoth /\ ~o.DisableCPUProf /\ ~o.DisableMemProf
                    /\ o.UseAWSFargate \/ o.VCPUSize = 1}
    /\ defaultMinConsecutiveOverThreshold = 1
    /\ budget = [l \in Loops |-> 0]
    /\ maxStarts = 0
    /\ bench = NoBench
    /\ queryer = setCPUQuota(StartQueryer(env, opt), env.quotaFile,
                             env.periodFile).qr
    /\ InitTasks

\* One call of queryer.cpuUsage().
callCpuUsage ==
    /\ bench.calls < BenchCalls
    /\ \E stat \in BenchStats :
          LET r == cpuUsage(queryer, stat, now)
          IN  /\ queryer' = r.qr
              /\ now' = IF r.err THEN now ELSE now + 1
              /\ bench' = [calls |-> bench.calls + 1,
                           inserted |->
                               IF r.err
                               THEN bench.inserted
                               ELSE Append(bench.inserted,
                                           cpuUsageSnapshot(stat.cpuTotal, now)),
                           usage |-> r.usage,
                           err |-> r.err]
    /\ UNCHANGED <<env, opt, defaultMinConsecutiveOverThreshold, budget,
                   maxStarts, callerVars, pc, consecutiveOverThresholdCnt,
                   loopHistory, exitReason, qAccess, last, reportVars>>

NextQueryer == callCpuUsage

SpecQueryer == InitQueryer /\ [][NextQueryer]_vars

(* -------------------------------- claims ------------------------------ *)

Limit == ap.minConsecutiveOverThreshold

Cnt(l) == consecutiveOverThresholdCnt[l]

\* The counter one breach tick after the value c, written out.
Bumped(c) == IF c + 1 >= Limit THEN 0 ELSE c + 1

ReportReturns == {"profileOwn", "profileCross", "deliverOwn", "deliverCross"}

OwnReturns == {"profileOwn", "deliverOwn"}

\* C1: debounce cadence.  While every poll of a loop has been at or above
\* its threshold and no read has failed, the poll at tick t dispatches the
\* loop's own report exactly when (t - 1) mod debounceLimit = 0, so after t
\* ticks ceil(t / debounceLimit) reports have been dispatched.
C1_DebounceCadence ==
    \A l \in Loops :
        (sustained[l] /\ ticks[l] >= 1) =>
            /\ sustainedReports[l] = (ticks[l] + Limit - 1) \div Limit
            /\ (last.task = l /\ last.op = "poll") =>
                   ((pc[l] = "profOwn") <=> ((ticks[l] - 1) % Limit = 0))

\* C1 witness: debounceLimit 3, ten sustained ticks, the fourth report
\* dispatched at tick 10.
C1_Witness ==
    \E l \in Loops :
        /\ Limit = 3
        /\ sustained[l]
        /\ ticks[l] = 10
        /\ sustainedReports[l] = 4
        /\ last.task = l /\ last.op = "poll"
        /\ pc[l] = "profOwn"

\* C2: re-arming on recovery.  A poll below the threshold dispatches
\* nothing and resets the counter to 0; the first later poll at or above
\* the threshold (equality included) dispatches the loop's own report.
C2_Rearm ==
    \A l \in Loops :
        (last.task = l /\ last.op = "poll") =>
            /\ (last.result = "below") => (Cnt(l) = 0 /\ pc[l] = "select")
            /\ (last.result \in {"equal", "above"} /\ last.dropFrom # -1) =>
                   pc[l] = "profOwn"

\* C2 witness: a loop whose counter was non-zero when usage dropped
\* dispatches on a later poll that is exactly at the threshold.
C2_Witness ==
    \E l \in Loops :
        /\ last.task = l /\ last.op = "poll"
        /\ last.result = "equal"
        /\ last.dropFrom > 0
        /\ pc[l] = "profOwn"

\* C3: loop isolation.  When a loop has returned because its poll failed,
\* the other loop has not been taken down with it: it is running, or it
\* returned for a reason of its own (stop, its own failed poll, disabled).
C3_LoopIsolation ==
    \A l \in Loops :
        exitReason[l] = "pollErr" =>
            exitReason[Other(l)] \in {"none", "stop", "pollErr", "disabled"}

\* C4: a failed read of the other kind's usage skips only the cross
\* report: the loop is back at its select with the counter incremented.
C4_CrossReadFailureNotFatal ==
    \A l \in Loops :
        (last.task = l /\ last.op = "crossRead" /\ last.result = "err") =>
            (pc[l] = "select" /\ Cnt(l) = Bumped(last.cnt))

\* C5: a failed report neither stops the loop nor is retried.  When a
\* report call returns, with an error or without, the loop goes on the same
\* way: to the cross report after its own report when cross-reporting
\* applies, else back to the select with the counter incremented; and a
\* report is only ever entered from a poll (or cross read) made with the
\* counter at 0.
C5_FailedReportContinues ==
    \A l \in Loops :
        /\ exitReason[l] # "reportErr"
        /\ (last.task = l /\ last.op \in ReportReturns
            /\ ~(last.op \in {"profileOwn", "profileCross"} /\ last.result = "nil")) =>
               IF last.op \in OwnReturns /\ ReportsOther(l)
               THEN pc[l] = "crossRead" /\ Cnt(l) = last.cnt
               ELSE pc[l] = "select" /\ Cnt(l) = Bumped(last.cnt)
        /\ (pc[l] \in {"profOwn", "sendOwn", "crossRead", "profCross", "sendCross"}) =>
               Cnt(l) = 0

\* C5 witness: a loop whose own delivery timed out is back at its select
\* with the counter at 1.
C5_Witness ==
    \E l \in Loops :
        /\ last.task = l /\ last.op = "deliverOwn" /\ last.result = "timeout"
        /\ pc[l] = "select"
        /\ Cnt(l) = 1

\* C6: the snapshot queue is used by the CPU watcher loop only.
C6_QueueOnlyCPULoop == qAccess \subseteq {"cpu"}

\* C7: once the stop signal is active, the controller task and both
\* watcher loops eventually terminate (a panic ends them with the process).
C7_StopTerminates ==
    (stopC = "closed") ~> (panicked \/ \A t \in Tasks : pc[t] = "done")

\* C7 witness: all three tasks returned after Stop, both loops through the
\* stop case, one of them with no tick left to wait for.
C7_Witness ==
    /\ stopC = "closed"
    /\ ~panicked
    /\ \A t \in Tasks : pc[t] = "done"
    /\ \A l \in Loops : exitReason[l] = "stop"
    /\ \E l \in Loops : ticks[l] = budget[l]

\* C8: Stop is idempotent: the stop signal is issued at most once and no
\* call panics.
C8_StopIdempotent == ~panicked /\ closes <= 1

\* Start passed newQueryer and validate and got to the quota.
ReachedQuota ==
    /\ startErr # "notCalled"
    /\ newQueryer(env.mode).err = "nil"
    /\ validate(opt) = "nil"

QuotaFails ==
    setCPUQuota(StartQueryer(env, opt), env.quotaFile, env.periodFile).err # "nil"

\* C9: CPU-quota degradation at startup.  With CPU monitoring enabled and
\* setCPUQuota failing: with memory monitoring disabled Start returns the
\* error and starts nothing; otherwise Start succeeds with CPU monitoring
\* disabled, and then the CPU loop never polls, no CPU report is in
\* progress in either loop, and the snapshot queue stays untouched.  With
\* CPU monitoring disabled by option setCPUQuota is never called.
C9_QuotaDegradation ==
    /\ (ReachedQuota /\ ~opt.DisableCPUProf /\ QuotaFails) =>
           IF opt.DisableMemProf
           THEN /\ startErr # "nil"
                /\ ~globalAp
                /\ \A t \in Tasks : pc[t] = "idle"
           ELSE /\ startErr = "nil"
                /\ ap.disableCPUProf
                /\ ticks["cpu"] = 0
                /\ pc["cpu"] \in {"idle", "entry", "done"}
                /\ pc["mem"] \notin {"crossRead", "profCross", "sendCross"}
                /\ queryer.q = << >>
    /\ opt.DisableCPUProf => quotaCalls = 0

\* C9 witness: Start degraded to memory-only with cross-reporting asked
\* for, and the memory loop finished a breach tick without a CPU report.
C9_Witness ==
    /\ ReachedQuota /\ ~opt.DisableCPUProf /\ QuotaFails
    /\ opt.ReportBoth
    /\ startErr = "nil"
    /\ ap.disableCPUProf
    /\ exitReason["cpu"] = "disabled"
    /\ last.task = "mem" /\ last.op = "deliverOwn"
    /\ pc["mem"] = "select"

\* The quota file holds the unlimited value, or a file is unreadable or
\* does not parse.
QuotaUnusable ==
    \/ env.quotaFile = FileLine(<<"-", "1">>)
    \/ parseCPU(env.quotaFile).err # "nil"
    \/ parseCPU(env.periodFile).err # "nil"

\* Start's call of setCPUQuota failed: Start returned the error, or went on
\* with CPU monitoring disabled.
QuotaCallFailed == startErr # "nil" \/ ap.disableCPUProf

\* C10: legacy-hierarchy setCPUQuota fails when the quota file holds the
\* unlimited value -1 or a file cannot be read or parsed, so the quota it
\* stored on success is strictly positive.
C10_QuotaPositive ==
    (ReachedQuota /\ ~opt.DisableCPUProf
     /\ StartQueryer(env, opt).variant = "cgroupV1") =>
        /\ QuotaUnusable => QuotaCallFailed
        /\ ~QuotaCallFailed =>
               (queryer.cpuQuota.n > 0 /\ queryer.cpuQuota.d > 0)

(* ---- the queryer on its own (SpecQueryer) ---- *)

\* Snapshots the bench's calls were to insert so far.
Inserted == bench.inserted

\* The bench's latest call returned without an error.
Succeeded == bench.calls > 0 /\ ~bench.err

\* C11: not-ready gating.  A successful cpuUsage call made while fewer
\* snapshots than the queue's capacity have been inserted, the call's own
\* included, returns 0, whatever the counter read, for the legacy-hierarchy
\* and the fixed-limit variant alike; and the call's snapshot is in the queue.
C11_NotReadyGating ==
    (Succeeded /\ Len(Inserted) < cpuUsageSnapshotQueueSize) =>
        /\ bench.usage = FracZero
        /\ queryer.q = Inserted

\* C11 witness: the fixed-limit variant one snapshot short of capacity,
\* the counter at its largest value, and 0 returned.
C11_Witness ==
    /\ queryer.variant = "awsFargate"
    /\ Succeeded
    /\ Len(Inserted) = cpuUsageSnapshotQueueSize - 1
    /\ Inserted[Len(Inserted)].usage = UintRange - 1
    /\ bench.usage = FracZero

\* The last n elements of a sequence (all of it when it is shorter).
LastN(seq, n) ==
    IF Len(seq) <= n THEN seq ELSE SubSeq(seq, Len(seq) - n + 1, Len(seq))

\* C12: buffer eviction.  After any number of insertions the queue holds
\* the last `capacity` snapshots inserted, in insertion order (all of them
\* while there are fewer); it never holds more than `capacity`; head() is
\* the oldest snapshot retained and tail() the one inserted last.
C12_BufferEviction ==
    /\ Len(queryer.q) <= cpuUsageSnapshotQueueSize
    /\ queryer.q = LastN(Inserted, cpuUsageSnapshotQueueSize)
    /\ Len(Inserted) >= cpuUsageSnapshotQueueSize =>
           /\ Len(queryer.q) = cpuUsageSnapshotQueueSize
           /\ head(queryer.q) =
                  Inserted[Len(Inserted) - cpuUsageSnapshotQueueSize + 1]
           /\ tail(queryer.q) = Inserted[Len(Inserted)]

\* C12 witness: capacity + 2 insertions, the two oldest evicted.
C12_Witness ==
    /\ Len(Inserted) = cpuUsageSnapshotQueueSize + 2
    /\ Len(queryer.q) = cpuUsageSnapshotQueueSize
    /\ head(queryer.q) = Inserted[Len(Inserted) - cpuUsageSnapshotQueueSize + 1]
    /\ head(queryer.q) # Inserted[1]
    /\ tail(queryer.q) = Inserted[Len(Inserted)]

\* The oldest and the newest of the snapshots that are retained once
\* `capacity` snapshots have been inserted.
OldestRetained == Inserted[Len(Inserted) - cpuUsageSnapshotQueueSize + 1]

NewestInserted == Inserted[Len(Inserted)]

\* C13: rate correctness of the legacy-hierarchy variant.  Once the queue
\* is full, cpuUsage returns
\* ((tail.usage - head.usage) / (tail.timestamp - head.timestamp)) / quota,
\* for every pair of values of the cumulative counter (which never
\* decreases: tail.usage >= head.usage).
C13_RateCorrectness ==
    (/\ queryer.variant = "cgroupV1"
     /\ Succeeded
     /\ Len(Inserted) >= cpuUsageSnapshotQueueSize
     /\ NewestInserted.usage >= OldestRetained.usage) =>
        FracEq(bench.usage,
               FracDiv(Frac(NewestInserted.usage - OldestRetained.usage,
                            NewestInserted.timestamp - OldestRetained.timestamp),
                       queryer.cpuQuota))

(* ---- the engine, continued ---- *)

Sends == {"sendOwn", "sendCross"}

DeliverReturns == {"deliverOwn", "deliverCross"}

\* C14: deadline honoring.  When the deadline of a delivery passes before
\* the Reporter has completed it, the report call returns a timeout failure
\* to the watcher loop (unless the process has died), so the loop is not
\* left inside the delivery attempt.
C14_DeadlineHonoring ==
    \A l \in Loops :
        (pc[l] \in Sends /\ ctxDone[l]) ~>
            (\/ panicked
             \/ /\ last.task = l
                /\ last.op \in DeliverReturns
                /\ last.result = "timeout")

\* The variant the selection policy asks for.
ExpectedVariant ==
    IF opt.UseAWSFargate
    THEN "awsFargate"
    ELSE IF env.mode = "Legacy" THEN "cgroupV1" ELSE "cgroupV2"

\* C15: variant selection at Start.  Once Start has succeeded the engine's
\* queryer is, and stays, the fixed-limit variant when the override is
\* configured, else the legacy-hierarchy variant in legacy mode and the
\* unified-hierarchy variant in hybrid and unified mode; in an unrecognized
\* mode Start fails and no task is started.
C15_VariantSelection ==
    /\ startErr = "nil" =>
           /\ env.mode \in {"Legacy", "Hybrid", "Unified"}
           /\ queryer.variant = ExpectedVariant
    /\ env.mode \notin {"Legacy", "Hybrid", "Unified"} =>
           /\ startErr \in {"notCalled", "ErrCgroupsUnavailable"}
           /\ ~globalAp
           /\ \A t \in Tasks : pc[t] = "idle"

\* C15 witness: the override on a unified-mode platform, the CPU loop
\* having polled the fixed-limit queryer.
C15_Witness ==
    /\ opt.UseAWSFargate
    /\ env.mode = "Unified"
    /\ startErr = "nil"
    /\ queryer.variant = "awsFargate"
    /\ ticks["cpu"] >= 1
    /\ Len(queryer.q) >= 1

CrossPcs == {"crossRead", "profCross", "sendCross"}

\* The latest step was loop l's report call of its own kind (of the other
\* kind) returning, from the Profiler with an error or from the Reporter.
OwnEnded(l) ==
    /\ last.task = l
    /\ \/ last.op = "profileOwn" /\ last.result # "nil"
       \/ last.op = "deliverOwn"

CrossEnded(l) ==
    /\ last.task = l
    /\ \/ last.op = "profileCross" /\ last.result # "nil"
       \/ last.op = "deliverCross"

\* The usage of `kind` as the read just made gives it: for the memory, from
\* what stat() returned; for the CPU, from the queue the read left behind.
FreshUsage(kind) ==
    IF kind = "mem"
    THEN Frac(SubUint(last.stat.memUsage, last.stat.inactiveFile),
              last.stat.memLimit)
    ELSE IF Len(queryer.q) < cpuUsageSnapshotQueueSize
         THEN FracZero
         ELSE LET h == queryer.q[1]
                  t == queryer.q[Len(queryer.q)]
              IN  FracDiv(Frac(ToSigned(SubUint(t.usage, h.usage)),
                               t.timestamp - h.timestamp),
                          queryer.cpuQuota)

\* C16: cross-reporting dispatch.  A poll enters the loop's own report
\* exactly when it is a new breach.  When that report call has returned,
\* with or without an error, and cross-reporting is on and the other kind
\* enabled, the loop reads the other kind's usage and, the read succeeding,
\* dispatches one report of the other kind with the usage just read, after
\* which the tick is over.  A loop is in a report of the other kind in no
\* other case: not after a poll that is no new breach, not with
\* cross-reporting off, not with the other kind disabled.
C16_CrossDispatch ==
    \A l \in Loops :
        /\ pc[l] \in CrossPcs => (ReportsOther(l) /\ Cnt(l) = 0)
        /\ (last.task = l /\ last.op = "poll") =>
               /\ pc[l] \notin CrossPcs
               /\ (pc[l] = "profOwn") <=>
                      (last.result \in {"equal", "above"} /\ last.cnt = 0)
        /\ OwnEnded(l) =>
               pc[l] = IF ReportsOther(l) THEN "crossRead" ELSE "select"
        /\ (last.task = l /\ last.op = "crossRead" /\ last.result = "nil") =>
               /\ pc[l] = "profCross"
               /\ last.arg = <<FreshUsage(Other(l))>>
        /\ (last.task = l /\ last.op = "profileCross" /\ last.result = "nil") =>
               pc[l] = "sendCross"
        /\ CrossEnded(l) => pc[l] = "select"
        /\ (last.task = l /\ last.op \in {"entry", "stop"}) =>
               pc[l] \in {"select", "done"}

\* C16 witness: the memory loop, on a new breach, has read the CPU usage
\* from the full queue and dispatched a CPU report with it.
C16_Witness ==
    /\ last.task = "mem" /\ last.op = "crossRead" /\ last.result = "nil"
    /\ pc["mem"] = "profCross"
    /\ isFull(queryer.q)
    /\ last.arg = <<Frac(3, 4)>>

(* ---- the queryer on its own (SpecQueryer), continued ---- *)

\* C17: the fixed-limit variant.  setCPUQuota succeeds and leaves the
\* queryer as it is, whatever the accounting files hold, so Start neither
\* fails nor disables the CPU monitoring because of the quota; and once
\* the queue is full cpuUsage returns the counter just read divided by
\* limitPerVCPU * vCPUSize, whatever the queue's head and the timestamps.
C17_FixedLimit ==
    queryer.variant = "awsFargate" =>
        /\ queryer.cpuQuota = FracZero
        /\ setCPUQuota(queryer, env.quotaFile, env.periodFile) =
               [qr |-> queryer, err |-> "nil"]
        /\ bench.calls = 0 =>
               \A e \in Envs :
                   /\ setCPUQuota(queryer, e.quotaFile, e.periodFile) =
                          [qr |-> queryer, err |-> "nil"]
                   /\ newQueryer(e.mode).err = "nil" =>
                          /\ StartResult(e, opt, 1).err = "nil"
                          /\ ~StartResult(e, opt, 1).ap.disableCPUProf
                          /\ StartResult(e, opt, 1).qr = queryer
        /\ (Succeeded /\ Len(Inserted) >= cpuUsageSnapshotQueueSize) =>
               FracEq(bench.usage,
                      Frac(NewestInserted.usage, limitPerVCPU * opt.VCPUSize))

\* C17 witness: two vCPUs, the queue full and past its first eviction, the
\* head's counter not 0, and the largest counter value over the limit
\* returned.
C17_Witness ==
    /\ queryer.variant = "awsFargate"
    /\ opt.VCPUSize = 2
    /\ Succeeded
    /\ Len(Inserted) > cpuUsageSnapshotQueueSize
    /\ OldestRetained.usage # 0
    /\ NewestInserted.usage = UintRange - 1
    /\ bench.usage = Frac(UintRange - 1, limitPerVCPU * 2)

\* C18: warm-up of the CPU watcher.  With the CPU threshold in (0, 1] (and
\* a positive CPU quota) the CPU watcher loop dispatches no CPU report
\* during its first capacity - 1 polls, in every configuration.
C18_WarmUp ==
    (/\ FracLess(FracZero, ap.cpuThreshold)
     /\ queryer.cpuQuota.n > 0
     /\ pc["cpu"] \in {"profOwn", "sendOwn"}) =>
        ticks["cpu"] >= cpuUsageSnapshotQueueSize

\* Loop l is inside the Profiler's capture of `kind` (profileCPU for "cpu",
\* profileHeap for "mem"): for its own report or for a cross report.
InCapture(l, kind) ==
    \/ kind = l /\ pc[l] = "profOwn"
    \/ kind = Other(l) /\ pc[l] = "profCross"

\* C19 as stated: the two watcher loops are never both inside
\* Profiler.profileCPU, and never both inside Profiler.profileHeap.
C19_OneCapturePerKind ==
    \A kind \in Loops : ~(InCapture("cpu", kind) /\ InCapture("mem", kind))

\* C19 as amended: the two watcher loops are both inside the capture of one
\* kind only when cross-reporting is enabled and both kinds are monitored;
\* in every other configuration at most one capture of a kind is in
\* progress.
C19_OneCaptureWithoutCross ==
    \A kind \in Loops :
        (InCapture("cpu", kind) /\ InCapture("mem", kind)) =>
            (ap.reportBoth /\ ~ap.disableCPUProf /\ ~ap.disableMemProf)

\* C19 witness: without cross-reporting both loops are capturing at once,
\* each its own kind.
C19_Witness ==
    /\ ~ap.reportBoth
    /\ InCapture("cpu", "cpu")
    /\ InCapture("mem", "mem")

\* C20: once the last Start has been made and Stop has closed the stop
\* channel, every controller and watcher loop of every started instance
\* terminates: no instance is left with an open stop channel that Stop
\* cannot reach, and the tasks of the stopped instance are done.
C20_StopReachesAll ==
    (starts = maxStarts /\ stopC = "closed")
        ~> (panicked \/ (orphans = 0 /\ \A t \in Tasks : pc[t] = "done"))

=============================================================================
